---- MODULE Spec2Model ----
(***************************************************************************)
(* Model of send_cmd (src/main.py): a pool of daemon worker threads drains  *)
(* a queue of network devices; each worker runs the connect / command /     *)
(* retry loop of connect_dev on the device it dequeued; the main thread     *)
(* waits on q.join() and then aggregates the devices with write_logs.       *)
(*                                                                         *)
(* A Python string is modelled as a sequence of tokens, so "" is << >>,     *)
(* concatenation is \o and "".join(list) is the concatenation of the list.  *)
(***************************************************************************)
EXTENDS Integers, Sequences, FiniteSets, TLC

(***************************************************************************)
(* Bounds of the model.                                                     *)
(***************************************************************************)
\* largest number of errors the session raises in one run
MaxFaults == 3

(***************************************************************************)
(* Program constants.                                                       *)
(***************************************************************************)
\* settings["maxth"] default, main.py:114
DefaultMaxth == 20
\* upper limit accepted for mt<N>, main.py:120
MaxthLimit == 100
\* "if i == 2:  # tries", main.py:259 and main.py:271
Tries == 2

(***************************************************************************)
(* Inputs: payload files and what the session collaborator may raise.       *)
(***************************************************************************)
\* content of cmd.yaml: the ordered list of show commands
CmdYaml == << <<"show version">>, <<"show clock">> >>
\* content of cfg.yaml: the configuration lines (pushed as one config set)
CfgYaml == << <<"line1">>, <<"line2">> >>

\* exception classes as the except clauses of connect_dev tell them apart:
\* NetMikoTimeoutException, any other SSHException, any other Exception
ErrClasses == {"timeout", "ssh", "other"}
\* the text an exception of each class carries (str(err_msg)); the session's
\* texts name the attempt they were raised in, so that the text of one
\* attempt's error differs from the text of another's
ErrText(cls, attempt) ==
    CASE cls = "timeout" -> <<"TCP connection to device failed #", ToString(attempt)>>
      [] cls = "ssh"     -> <<"Error reading SSH protocol banner #", ToString(attempt)>>
      [] cls = "other"   -> <<"Error: not supported #", ToString(attempt)>>
\* what a session call may raise in the given attempt
Errors(attempt) == {[cls |-> c, msg |-> ErrText(c, attempt)] : c \in ErrClasses}
\* a session call returns ("ok") or raises one of Errors
OK == [cls |-> "ok", msg |-> << >>]

\* str(err_msg)
Str(err) == err.msg

\* "".join(list of strings)
RECURSIVE Join(_)
Join(logs) == IF logs = << >> THEN << >> ELSE Head(logs) \o Join(Tail(logs))

(***************************************************************************)
(* get_arguments (main.py:113-133).  An argument is a sequence of           *)
(* characters.                                                             *)
(***************************************************************************)
DigitVal == [c \in {"0","1","2","3","4","5","6","7","8","9"} |->
               CASE c = "0" -> 0 [] c = "1" -> 1 [] c = "2" -> 2 [] c = "3" -> 3
                 [] c = "4" -> 4 [] c = "5" -> 5 [] c = "6" -> 6 [] c = "7" -> 7
                 [] c = "8" -> 8 [] c = "9" -> 9]
IsDigit(c) == c \in DOMAIN DigitVal

\* sub in arg
Contains(arg, sub) ==
    \E p \in 1..(Len(arg) - Len(sub) + 1) : SubSeq(arg, p, p + Len(sub) - 1) = sub

\* positions where the pattern mt([0-9]+) matches
MtMatches(arg) ==
    {p \in 1..(Len(arg) - 2) :
        /\ arg[p] = "m" /\ arg[p + 1] = "t" /\ IsDigit(arg[p + 2])}

\* the greedy digit run [0-9]+ starting at position p
RECURSIVE DigitRun(_, _)
DigitRun(arg, p) ==
    IF p <= Len(arg) /\ IsDigit(arg[p])
    THEN <<arg[p]>> \o DigitRun(arg, p + 1)
    ELSE << >>

\* int(digits)
RECURSIVE ParseInt(_)
ParseInt(ds) ==
    IF ds = << >> THEN 0
    ELSE 10 * ParseInt(SubSeq(ds, 1, Len(ds) - 1)) + DigitVal[ds[Len(ds)]]

\* re.search(mt_pattern, arg): group 1 of the leftmost match; << >> stands for
\* "no match" (group 1 of a match holds at least one digit)
MtSearch(arg) ==
    IF MtMatches(arg) = {} THEN << >>
    ELSE LET p == CHOOSE x \in MtMatches(arg) : \A y \in MtMatches(arg) : x <= y
         IN  DigitRun(arg, p + 2)

\* one iteration of the loop over the arguments
ApplyArg(settings, arg) ==
    IF Contains(arg, <<"m", "t">>)
    THEN IF MtSearch(arg) # << >> /\ ParseInt(MtSearch(arg)) <= MaxthLimit
         THEN [settings EXCEPT !.maxth = ParseInt(MtSearch(arg))]
         ELSE settings
    ELSE IF arg = <<"c", "f", "g">>
    THEN [settings EXCEPT !.conf = TRUE]
    ELSE IF arg \in { <<"x", "r">>, <<"x", "e">>, <<"h", "u", "a">>, <<"m", "x">> }
    THEN [settings EXCEPT !.os_type = arg]
    ELSE settings

RECURSIVE ApplyArgs(_, _)
ApplyArgs(settings, arguments) ==
    IF arguments = << >> THEN settings
    ELSE ApplyArgs(ApplyArg(settings, Head(arguments)), Tail(arguments))

get_arguments(arguments) ==
    ApplyArgs([conf |-> FALSE, maxth |-> DefaultMaxth,
               os_type |-> <<"c","i","s","c","o","_","i","o","s">>], arguments)

\* the command lines the runs of the model are started with:
\* main.py mt<N> [cfg] [xr|xe|hua|mx]
ScriptName == <<"m","a","i","n",".","p","y">>
VendorArgs == { << >>, << <<"x", "r">> >>, << <<"x", "e">> >>,
                << <<"h", "u", "a">> >>, << <<"m", "x">> >> }
MtArgs == { <<"m", "t", "0">>, <<"m", "t", "1">>, <<"m", "t", "2">> }
RunArgvs ==
    { <<ScriptName, mt>> : mt \in MtArgs }
    \cup
    { <<ScriptName, mt, <<"c", "f", "g">> >> \o o : mt \in MtArgs, o \in VendorArgs }

(***************************************************************************)
(* Device objects (main.py:22-105) and get_device_info (main.py:143-170).   *)
(***************************************************************************)
\* NetworkDevice.__init__, with the os_type the subclass sets
NetworkDevice(ip, host, os) ==
    [ip_address |-> ip, hostname |-> host, os_type |-> os,
     cmd_logs |-> << >>, conf_logs |-> << >>,
     connection_status |-> TRUE, connection_error_msg |-> << >>,
     ssh_conn |-> "None"]

\* a reset that restores the status fields and keeps the transcripts
resetKeepsLogs(dev) ==
    [dev EXCEPT !.connection_status = TRUE, !.connection_error_msg = << >>]

\* NetworkDevice.reset
reset(dev) ==
    [dev EXCEPT !.connection_status = TRUE, !.connection_error_msg = << >>,
                !.cmd_logs = << >>, !.conf_logs = << >>]

\* the device class get_device_info instantiates for settings["os_type"]
DeviceClass(os_type) ==
    CASE os_type = <<"c","i","s","c","o","_","i","o","s">> -> "cisco_ios"
      [] os_type = <<"x", "r">> -> "cisco_xr"
      [] os_type = <<"x", "e">> -> "cisco_xe"
      [] os_type = <<"h", "u", "a">> -> "huawei"
      [] os_type = <<"m", "x">> -> "juniper"

\* devices.yaml: hostname -> ip address, in file order; the runs of the model
\* read an inventory that is a prefix of this one
DevicesYaml ==
    << [hostname |-> <<"A">>, ip_address |-> <<"10.0.0.1">>],
       [hostname |-> <<"B">>, ip_address |-> <<"10.0.0.2">>] >>
Inventories == {SubSeq(DevicesYaml, 1, n) : n \in 0..Len(DevicesYaml)}

get_device_info(yaml, settings) ==
    [j \in 1..Len(yaml) |->
        NetworkDevice(yaml[j].ip_address, yaml[j].hostname,
                      DeviceClass(settings.os_type))]

(***************************************************************************)
(* What the session collaborator (netmiko) returns when a call succeeds.    *)
(***************************************************************************)
\* ssh_conn.send_command(cmd, strip_command=False, strip_prompt=False)
send_command(cmd) == cmd \o <<"-output">>
\* ssh_conn.send_config_set(cmd_list, ...)
send_config_set(cmd_list) == Join(cmd_list) \o <<"-pushed">>
\* ssh_conn.save_config()
save_config == <<"save-output">>
\* ssh_conn.commit()
commit == <<"commit-output">>

\* NetworkDeviceMX without its configure() and commit() overrides
CandidateCommitXROnly(os) == os = "cisco_xr"

\* vendors whose commit() is ssh_conn.commit() followed by exit_config_mode()
CandidateCommit(os) == os \in {"cisco_xr", "juniper"}
\* vendors whose commit() is ssh_conn.save_config()
SaveConfig(os) == os \in {"cisco_ios", "cisco_xe", "huawei"}

(***************************************************************************)
(* State.                                                                  *)
(***************************************************************************)
VARIABLES
    settings,           \* get_arguments(argv), main.py:297
    devices,            \* the list get_device_info returns, main.py:300
    total_devices,      \* len(devices), main.py:302
    q,                  \* queue.Queue(): indices into devices, FIFO
    unfinished_tasks,   \* Queue.unfinished_tasks: put() adds 1, task_done() takes 1
    mainpc,             \* position of the main thread
    started,            \* number of worker threads started, main.py:309-312
    nput,               \* number of devices put on the queue, main.py:314-315
    pc,                 \* position of each worker thread in connect_dev
    device,             \* connect_dev's local "device" of each worker (0: none)
    i,                  \* connect_dev's local retry counter of each worker
    k,                  \* cmd(): index of the next command of cmd.yaml
    file_exists,        \* which log files exist
    file_content,       \* the blocks written to each log file
    unavailable_devices_count,   \* what write_logs returned, main.py:320
    \* history variables (not program state)
    lifecycle,          \* lifecycle state of each device
    attempts,           \* ConnectHandler calls made for each device
    gets,               \* which worker dequeued each device, in order
    dones,              \* task_done() calls made for each device
    errs,               \* errors that reached connect_dev's except clauses
    saveErr,            \* what save_config()/commit() raised in the current attempt
    commitRaised,       \* whether save_config()/commit() raised in any attempt
    calls,              \* session calls of the current attempt, in order
    faults              \* errors the session has raised so far

progVars == <<settings, devices, total_devices, q, unfinished_tasks, mainpc,
              started, nput, pc, device, i, k, file_exists, file_content,
              unavailable_devices_count>>
histVars == <<lifecycle, attempts, gets, dones, errs, saveErr, commitRaised,
              calls, faults>>
vars == <<progVars, histVars>>

\* identifiers of the threads: as many as the largest mt<N> of MtArgs starts;
\* Workers are those the run starts
Threads == 1..2
Workers == 1..settings.maxth
DevIds == 1..Len(devices)

\* a main thread without q.join(): write_logs follows the second loop
MainPcWithoutJoin(nstarted, nqueued) ==
    IF nstarted < settings.maxth THEN "start_threads"
    ELSE IF nqueued < Len(devices) THEN "put"
    ELSE "write_logs"

\* where the main thread stands once "started" threads run and "nput" devices
\* are queued: the two for loops of main.py:309-315, then q.join()
MainPc(nstarted, nqueued) ==
    IF nstarted < settings.maxth THEN "start_threads"
    ELSE IF nqueued < Len(devices) THEN "put"
    ELSE "join"

Init ==
    /\ \E argv \in RunArgvs : settings = get_arguments(argv)
    /\ \E yaml \in Inventories : devices = get_device_info(yaml, settings)
    /\ total_devices = Len(devices)
    /\ q = << >>
    /\ unfinished_tasks = 0
    /\ started = 0
    /\ nput = 0
    /\ mainpc = MainPc(0, 0)
    /\ pc = [w \in Threads |-> "unstarted"]
    /\ device = [w \in Threads |-> 0]
    /\ i = [w \in Threads |-> 0]
    /\ k = [w \in Threads |-> 0]
    /\ file_exists = {}
    /\ file_content = [f \in {"connection_error_msg", "conf_logs", "show_commands_log"} |-> << >>]
    /\ unavailable_devices_count = 0
    /\ lifecycle = [d \in DevIds |-> "START"]
    /\ attempts = [d \in DevIds |-> 0]
    /\ gets = [d \in DevIds |-> << >>]
    /\ dones = [d \in DevIds |-> 0]
    /\ errs = [d \in DevIds |-> << >>]
    /\ saveErr = [d \in DevIds |-> OK]
    /\ commitRaised = [d \in DevIds |-> FALSE]
    /\ calls = [d \in DevIds |-> << >>]
    /\ faults = 0

(***************************************************************************)
(* connect_dev's except clauses (main.py:251-281), for an error e raised    *)
(* inside the try block while the retry counter is "tries".  The result is  *)
(* the device as the clause leaves it, the counter, and where the worker    *)
(* goes next.  NetMikoTimeoutException is a subclass of SSHException and is *)
(* listed first.  In the SSHException clause no name err_msg is bound (the  *)
(* clause has no "as", and Python unbinds the name at the end of the other  *)
(* clauses), so str(err_msg) at main.py:261 raises UnboundLocalError after  *)
(* main.py:260 has run: the error leaves connect_dev and the thread ends.   *)
(***************************************************************************)
\* Handler with the timeout clause missing: a timeout falls through to the
\* clause for generic errors and is retried
HandlerRetriesTimeout(dev, tries, e) ==
    IF e.cls = "ssh" /\ tries = Tries
    THEN [dev |-> [dev EXCEPT !.connection_status = FALSE], i |-> tries, next |-> "dead"]
    ELSE IF tries = Tries
    THEN [dev  |-> [dev EXCEPT !.connection_status = FALSE,
                               !.connection_error_msg = Str(e)],
          i    |-> tries,
          next |-> "task_done_275"]
    ELSE [dev |-> reset(dev), i |-> tries + 1, next |-> "sleep"]

\* Handler whose generic clause gives up on the first error without marking
\* the device as failed
HandlerGivesUpUnmarked(dev, tries, e) ==
    CASE e.cls = "timeout" ->
            [dev  |-> [dev EXCEPT !.connection_status = FALSE,
                                  !.connection_error_msg = Str(e)],
             i    |-> tries,
             next |-> "task_done_255"]
      [] e.cls = "ssh" ->
            IF tries = Tries
            THEN [dev  |-> [dev EXCEPT !.connection_status = FALSE],
                  i    |-> tries,
                  next |-> "dead"]
            ELSE [dev |-> reset(dev), i |-> tries + 1, next |-> "sleep"]
      [] e.cls = "other" ->
            [dev |-> reset(dev), i |-> tries, next |-> "task_done_275"]

\* Handler without the "i == 2" tests: transient and generic errors are
\* retried however many attempts were made
HandlerRetriesForever(dev, tries, e) ==
    IF e.cls = "timeout"
    THEN [dev  |-> [dev EXCEPT !.connection_status = FALSE,
                               !.connection_error_msg = Str(e)],
          i    |-> tries,
          next |-> "task_done_255"]
    ELSE [dev |-> reset(dev), i |-> tries + 1, next |-> "sleep"]

Handler(dev, tries, e) ==
    CASE e.cls = "timeout" ->
            [dev  |-> [dev EXCEPT !.connection_status = FALSE,
                                  !.connection_error_msg = Str(e)],
             i    |-> tries,
             next |-> "task_done_255"]
      [] e.cls = "ssh" ->
            IF tries = Tries
            THEN [dev  |-> [dev EXCEPT !.connection_status = FALSE],
                  i    |-> tries,
                  next |-> "dead"]
            ELSE [dev |-> reset(dev), i |-> tries + 1, next |-> "sleep"]
      [] e.cls = "other" ->
            IF tries = Tries
            THEN [dev  |-> [dev EXCEPT !.connection_status = FALSE,
                                       !.connection_error_msg = Str(e)],
                  i    |-> tries,
                  next |-> "task_done_275"]
            ELSE [dev |-> reset(dev), i |-> tries + 1, next |-> "sleep"]

\* the call at position "at" of worker w's try block returns: the device
\* becomes newdev and the worker goes on to nextpc
Returns(w, at, newdev, nextpc, lc) ==
    /\ devices' = [devices EXCEPT ![device[w]] = newdev]
    /\ pc' = [pc EXCEPT ![w] = nextpc]
    /\ lifecycle' = [lifecycle EXCEPT ![device[w]] = lc]
    /\ UNCHANGED <<i, errs, faults>>

\* the call at position "at" of worker w's try block raises e, which reaches
\* the except clauses of connect_dev
Raises(w, at, e) ==
    LET h == Handler(devices[device[w]], i[w], e) IN
    /\ faults < MaxFaults
    /\ faults' = faults + 1
    /\ devices' = [devices EXCEPT ![device[w]] = h.dev]
    /\ pc' = [pc EXCEPT ![w] = h.next]
    /\ i' = [i EXCEPT ![w] = h.i]
    /\ errs' = [errs EXCEPT ![device[w]] =
                   Append(@, e)]
    /\ lifecycle' = [lifecycle EXCEPT ![device[w]] =
                        IF h.next = "sleep" THEN "RETRYING" ELSE "CONNECT_FAILED"]

\* what no step of a worker's try block changes
WorkerFrame ==
    UNCHANGED <<settings, total_devices, q, unfinished_tasks, mainpc, started,
                nput, device, file_exists, file_content,
                unavailable_devices_count, gets, dones>>

\* cmd(): the first call after ConnectHandler returned (main.py:173-185)
CmdEntry ==
    IF settings.conf THEN "send_config_set"
    ELSE IF CmdYaml = << >> THEN "disconnect" ELSE "show_commands"

(***************************************************************************)
(* Worker threads: connect_dev (main.py:238-281).                           *)
(***************************************************************************)
\* a get() that returns the oldest item and leaves it on the queue
QueuePeek(queue) == [item |-> Head(queue), rest |-> queue]

\* Queue.get() on a non-empty queue: the oldest item is removed and returned
QueueGet(queue) == [item |-> Head(queue), rest |-> Tail(queue)]

\* device = dev_queue.get(); i = 0   (blocks while the queue is empty)
Get(w) ==
    /\ pc[w] = "get"
    /\ q # << >>
    /\ device' = [device EXCEPT ![w] = QueueGet(q).item]
    /\ q' = QueueGet(q).rest
    /\ i' = [i EXCEPT ![w] = 0]
    /\ pc' = [pc EXCEPT ![w] = "connect"]
    /\ gets' = [gets EXCEPT ![Head(q)] = Append(@, w)]
    /\ lifecycle' = [lifecycle EXCEPT ![Head(q)] = "CONNECTING"]
    /\ UNCHANGED <<settings, devices, total_devices, unfinished_tasks, mainpc,
                   started, nput, k, file_exists, file_content,
                   unavailable_devices_count, attempts, dones, errs, saveErr, commitRaised,
                   calls, faults>>

\* device.ssh_conn = ConnectHandler(...)   main.py:244-245
ConnectHandler(w) ==
    /\ pc[w] = "connect"
    /\ attempts' = [attempts EXCEPT ![device[w]] = @ + 1]
    /\ calls' = [calls EXCEPT ![device[w]] = Append(@, "connect")]
    /\ UNCHANGED <<saveErr, commitRaised>>
    /\ k' = [k EXCEPT ![w] = 1]
    /\ \/ Returns(w, "connect",
                  [devices[device[w]] EXCEPT !.ssh_conn = "session"],
                  CmdEntry, "EXECUTING")
       \/ \E e \in Errors(attempts[device[w]] + 1) : Raises(w, "connect", e)
    /\ WorkerFrame

\* device.show_commands(cmd) for the next cmd of cmd.yaml   main.py:184-185, 33-34
ShowCommands(w) ==
    /\ pc[w] = "show_commands"
    /\ calls' = [calls EXCEPT ![device[w]] = Append(@, "send_command")]
    /\ \/ /\ Returns(w, "send_command",
                     [devices[device[w]] EXCEPT
                         !.cmd_logs = Append(@, send_command(CmdYaml[k[w]]))],
                     IF k[w] < Len(CmdYaml) THEN "show_commands" ELSE "disconnect",
                     IF k[w] < Len(CmdYaml) THEN "EXECUTING" ELSE "DISCONNECTING")
          /\ k' = [k EXCEPT ![w] = @ + 1]
       \/ /\ \E e \in Errors(attempts[device[w]]) : Raises(w, "send_command", e)
          /\ k' = k
    /\ UNCHANGED <<attempts, saveErr, commitRaised>>
    /\ WorkerFrame

\* device.configure(yaml_input): ssh_conn.send_config_set   main.py:37, 65, 100
SendConfigSet(w) ==
    /\ pc[w] = "send_config_set"
    /\ calls' = [calls EXCEPT ![device[w]] = Append(@, "send_config_set")]
    /\ \/ IF CandidateCommit(devices[device[w]].os_type)
          THEN Returns(w, "send_config_set", devices[device[w]], "show_config", "EXECUTING")
          ELSE Returns(w, "send_config_set",
                       [devices[device[w]] EXCEPT
                           !.conf_logs = Append(@, send_config_set(CfgYaml))],
                       "commit", "EXECUTING")
       \/ \E e \in Errors(attempts[device[w]]) : Raises(w, "send_config_set", e)
    /\ UNCHANGED <<k, attempts, saveErr, commitRaised>>
    /\ WorkerFrame

\* XR: send_command("show configuration"), MX: send_command("show | compare")
\* main.py:66, 101
VerificationRead(w) ==
    /\ pc[w] = "show_config"
    /\ calls' = [calls EXCEPT ![device[w]] = Append(@, "verification_read")]
    /\ \/ Returns(w, "verification_read",
                  [devices[device[w]] EXCEPT
                      !.conf_logs = Append(@,
                          send_command(IF devices[device[w]].os_type = "cisco_xr"
                                       THEN <<"show configuration">>
                                       ELSE <<"show | compare">>))],
                  "commit", "EXECUTING")
       \/ \E e \in Errors(attempts[device[w]]) : Raises(w, "verification_read", e)
    /\ UNCHANGED <<k, attempts, saveErr, commitRaised>>
    /\ WorkerFrame

\* every vendor's commit() catching what its session call raises
CommitCatchesAll(os) == TRUE

\* the vendors whose commit() wraps save_config() in try/except Exception
\* (NetworkDeviceIOS.commit, NetworkDeviceHuawei.commit); NetworkDeviceXE.commit
\* has no try
CommitCatches(os) == os \in {"cisco_ios", "huawei"}

\* what the except clause of commit() appends to conf_logs   main.py:55, 91
CommitErrorText(os, e) ==
    IF os = "cisco_ios" THEN <<"COMMIT is OK after msg:">> \o Str(e)
    ELSE <<"COMMIT error: ">> \o Str(e)

\* device.commit(): ssh_conn.save_config() or ssh_conn.commit()
\* main.py:53, 69, 79, 89, 104
Commit(w) ==
    LET d   == device[w]
        os  == devices[d].os_type
        what == IF CandidateCommit(os) THEN "commit" ELSE "save_config"
    IN
    /\ pc[w] = "commit"
    /\ calls' = [calls EXCEPT ![d] = Append(@, what)]
    /\ \/ /\ Returns(w, what,
                     [devices[d] EXCEPT
                         !.conf_logs = Append(@, IF CandidateCommit(os)
                                                 THEN commit ELSE save_config)],
                     IF CandidateCommit(os) THEN "exit_config_mode" ELSE "disconnect",
                     IF CandidateCommit(os) THEN "EXECUTING" ELSE "DISCONNECTING")
          /\ UNCHANGED <<saveErr, commitRaised>>
       \/ \E e \in Errors(attempts[device[w]]) :
            /\ saveErr' = [saveErr EXCEPT ![d] = e]
            /\ commitRaised' = [commitRaised EXCEPT ![d] = TRUE]
            /\ IF CommitCatches(os)
               THEN /\ faults < MaxFaults
                    /\ faults' = faults + 1
                    /\ devices' = [devices EXCEPT ![d].conf_logs =
                                       Append(@, CommitErrorText(os, e))]
                    /\ pc' = [pc EXCEPT ![w] = IF os = "cisco_ios"
                                               THEN "commit_newline" ELSE "disconnect"]
                    /\ lifecycle' = [lifecycle EXCEPT ![d] =
                                        IF os = "cisco_ios"
                                        THEN "EXECUTING" ELSE "DISCONNECTING"]
                    /\ UNCHANGED <<i, errs>>
               ELSE Raises(w, what, e)
    /\ UNCHANGED <<k, attempts>>
    /\ WorkerFrame

\* NetworkDeviceIOS.commit, in its except clause:
\* conf_logs.append(ssh_conn.send_command("\n", expect_string=r"#"))   main.py:56
CommitNewline(w) ==
    /\ pc[w] = "commit_newline"
    /\ calls' = [calls EXCEPT ![device[w]] = Append(@, "send_command")]
    /\ \/ Returns(w, "send_command",
                  [devices[device[w]] EXCEPT
                      !.conf_logs = Append(@, send_command(<<"\n">>))],
                  "disconnect", "DISCONNECTING")
       \/ \E e \in Errors(attempts[device[w]]) : Raises(w, "send_command", e)
    /\ UNCHANGED <<k, attempts, saveErr, commitRaised>>
    /\ WorkerFrame

\* XR, MX: ssh_conn.exit_config_mode()   main.py:70, 105
ExitConfigMode(w) ==
    /\ pc[w] = "exit_config_mode"
    /\ calls' = [calls EXCEPT ![device[w]] = Append(@, "exit_config_mode")]
    /\ \/ Returns(w, "exit_config_mode", devices[device[w]],
                  "disconnect", "DISCONNECTING")
       \/ \E e \in Errors(attempts[device[w]]) : Raises(w, "exit_config_mode", e)
    /\ UNCHANGED <<k, attempts, saveErr, commitRaised>>
    /\ WorkerFrame

\* device.ssh_conn.disconnect()   main.py:247
Disconnect(w) ==
    /\ pc[w] = "disconnect"
    /\ calls' = [calls EXCEPT ![device[w]] = Append(@, "disconnect")]
    /\ \/ Returns(w, "disconnect", devices[device[w]],
                  "task_done_248", "DISCONNECTING")
       \/ \E e \in Errors(attempts[device[w]]) : Raises(w, "disconnect", e)
    /\ UNCHANGED <<k, attempts, saveErr, commitRaised>>
    /\ WorkerFrame

\* time.sleep(5), then the next pass of the inner while loop   main.py:268, 281
Sleep(w) ==
    /\ pc[w] = "sleep"
    /\ pc' = [pc EXCEPT ![w] = "connect"]
    /\ lifecycle' = [lifecycle EXCEPT ![device[w]] = "CONNECTING"]
    /\ calls' = [calls EXCEPT ![device[w]] = << >>]
    /\ saveErr' = [saveErr EXCEPT ![device[w]] = OK]
    /\ UNCHANGED <<devices, i, k, attempts, errs, commitRaised, faults>>
    /\ WorkerFrame

\* dev_queue.task_done(); break   main.py:248-249, 255-256, 275-276
\* (the task_done() of main.py:263 is never reached: main.py:261 raises)
TaskDone(w) ==
    /\ pc[w] \in {"task_done_248", "task_done_255", "task_done_275"}
    /\ unfinished_tasks' = unfinished_tasks - 1
    /\ dones' = [dones EXCEPT ![device[w]] = @ + 1]
    /\ lifecycle' = [lifecycle EXCEPT ![device[w]] =
                        IF pc[w] = "task_done_248" THEN "DONE_SUCCESS"
                        ELSE "DONE_FAILURE"]
    /\ pc' = [pc EXCEPT ![w] = "get"]
    /\ UNCHANGED <<settings, devices, total_devices, q, mainpc, started, nput,
                   device, i, k, file_exists, file_content,
                   unavailable_devices_count, attempts, gets, errs, saveErr, commitRaised,
                   calls, faults>>

Worker(w) ==
    \/ Get(w)
    \/ ConnectHandler(w)
    \/ ShowCommands(w)
    \/ SendConfigSet(w)
    \/ VerificationRead(w)
    \/ Commit(w)
    \/ CommitNewline(w)
    \/ ExitConfigMode(w)
    \/ Disconnect(w)
    \/ Sleep(w)
    \/ TaskDone(w)

(***************************************************************************)
(* write_logs (main.py:188-231).  A log file is the sequence of the blocks  *)
(* written to it; a block is the header naming the device and the text      *)
(* under it.                                                               *)
(***************************************************************************)
\* main.py:199-202 (conf mode) and main.py:215-218
LogBlock(dev, conf) ==
    [rule |-> "#", hostname |-> dev.hostname, ip_address |-> dev.ip_address,
     text |-> IF conf THEN Join(dev.conf_logs) ELSE Join(dev.cmd_logs)]

\* main.py:205-208 and main.py:221-224
ErrorBlock(dev) ==
    [rule |-> "-", hostname |-> dev.hostname, ip_address |-> dev.ip_address,
     text |-> dev.connection_error_msg]

\* the loop with the else branch missing: every device gets a block in the log
RECURSIVE WriteLoopLogsAll(_, _, _)
WriteLoopLogsAll(devs, conf, n) ==
    IF n = 0
    THEN [count |-> 0, log |-> << >>, conn_msg |-> << >>]
    ELSE LET prev == WriteLoopLogsAll(devs, conf, n - 1) IN
         IF devs[n].connection_status
         THEN [prev EXCEPT !.log = Append(@, LogBlock(devs[n], conf))]
         ELSE [prev EXCEPT !.count = @ + 1,
                           !.log = Append(@, LogBlock(devs[n], conf)),
                           !.conn_msg = Append(@, ErrorBlock(devs[n]))]

\* the "for device in devices" loop after its first n passes
RECURSIVE WriteLoop(_, _, _)
WriteLoop(devs, conf, n) ==
    IF n = 0
    THEN [count |-> 0, log |-> << >>, conn_msg |-> << >>]
    ELSE LET prev == WriteLoop(devs, conf, n - 1) IN
         IF devs[n].connection_status
         THEN [prev EXCEPT !.log = Append(@, LogBlock(devs[n], conf))]
         ELSE [prev EXCEPT !.count = @ + 1,
                           !.conn_msg = Append(@, ErrorBlock(devs[n]))]

\* any(...) in the place of all(...): the file is removed as soon as one
\* device was reached
AnyConnected(devs) == \E j \in 1..Len(devs) : devs[j].connection_status = TRUE

\* all([d.connection_status is True for d in devices])   main.py:228
AllConnected(devs) == \A j \in 1..Len(devs) : devs[j].connection_status = TRUE

\* the name of the log file of the run's mode   main.py:195, 211
LogName(conf) == IF conf THEN "conf_logs" ELSE "show_commands_log"

(***************************************************************************)
(* Main thread (main.py:309-320).                                           *)
(***************************************************************************)
MainFrame ==
    UNCHANGED <<settings, devices, total_devices, device, i, k,
                lifecycle, attempts, gets, dones, errs, saveErr, commitRaised,
                calls, faults>>

\* Thread(target=connect_dev, ...).start()   main.py:309-312
StartThread ==
    /\ mainpc = "start_threads"
    /\ started' = started + 1
    /\ pc' = [pc EXCEPT ![started + 1] = "get"]
    /\ mainpc' = MainPc(started + 1, nput)
    /\ UNCHANGED <<q, unfinished_tasks, nput, file_exists, file_content,
                   unavailable_devices_count>>
    /\ MainFrame

\* q.put(device)   main.py:314-315
Put ==
    /\ mainpc = "put"
    /\ q' = Append(q, nput + 1)
    /\ unfinished_tasks' = unfinished_tasks + 1
    /\ nput' = nput + 1
    /\ mainpc' = MainPc(started, nput + 1)
    /\ UNCHANGED <<started, pc, file_exists, file_content,
                   unavailable_devices_count>>
    /\ MainFrame

\* a barrier that only waits for the queue to be empty
JoinReturnsWhenEmpty(unfinished, queue) == queue = << >>

\* Queue.join() returns when unfinished_tasks is 0
JoinReturns(unfinished, queue) == unfinished = 0

\* q.join()   main.py:317
Join_ ==
    /\ mainpc = "join"
    /\ JoinReturns(unfinished_tasks, q)
    /\ mainpc' = "write_logs"
    /\ UNCHANGED <<q, unfinished_tasks, started, nput, pc, file_exists,
                   file_content, unavailable_devices_count>>
    /\ MainFrame

\* write_logs with its files opened for appending ("a") instead of "w"
write_logs_appending(devs, conf, files) ==
    LET r == WriteLoop(devs, conf, Len(devs)) IN
    [content |-> [files.content EXCEPT
                     !["connection_error_msg"] = @ \o r.conn_msg,
                     ![LogName(conf)] = @ \o r.log],
     exists  |-> (files.exists \cup {LogName(conf)} \cup {"connection_error_msg"})
                 \ (IF AllConnected(devs) THEN {"connection_error_msg"} ELSE {}),
     count   |-> r.count]

\* write_logs(devices, current_time, log_folder, settings) run on the log
\* folder "files": both files are opened with "w" (created or truncated),
\* written, and the connection error file is unlinked if every device was
\* reached; the result is the log folder after the call and the returned count
write_logs(devs, conf, files) ==
    LET r == WriteLoop(devs, conf, Len(devs)) IN
    [content |-> [files.content EXCEPT
                     !["connection_error_msg"] = r.conn_msg,
                     ![LogName(conf)] = r.log],
     exists  |-> (files.exists \cup {LogName(conf)} \cup {"connection_error_msg"})
                 \ (IF AllConnected(devs) THEN {"connection_error_msg"} ELSE {}),
     count   |-> r.count]

\* unavailable_devices_count = write_logs(devices, ...)   main.py:320
WriteLogs ==
    LET r == write_logs(devices, settings.conf,
                        [exists |-> file_exists, content |-> file_content]) IN
    /\ mainpc = "write_logs"
    /\ file_content' = r.content
    /\ file_exists' = r.exists
    /\ unavailable_devices_count' = r.count
    /\ mainpc' = "done"
    /\ UNCHANGED <<q, unfinished_tasks, started, nput, pc>>
    /\ MainFrame

Main == StartThread \/ Put \/ Join_ \/ WriteLogs

Next == Main \/ \E w \in Threads : Worker(w)

Spec == Init /\ [][Next]_vars

\* every started thread and the main thread keep being scheduled
FairSpec ==
    /\ Spec
    /\ WF_vars(Main)
    /\ \A w \in Threads : WF_vars(Worker(w))

(***************************************************************************)
(* Vocabulary of the properties.                                           *)
(***************************************************************************)
\* q.join() has returned
Joined == mainpc \in {"write_logs", "done"}
\* positions of a worker between dev_queue.get() and the break that ends the
\* inner while loop
InnerLoop == {"connect", "show_commands", "send_config_set", "show_config",
              "commit", "commit_newline", "exit_config_mode", "disconnect",
              "sleep", "task_done_248", "task_done_255", "task_done_275"}
\* worker w is processing device d
Holds(w, d) == device[w] = d /\ pc[w] \in InnerLoop
\* device d was dequeued and no worker is processing it any more
Ended(d) == gets[d] # << >> /\ \A w \in Threads : ~Holds(w, d)
Terminal(d) == lifecycle[d] \in {"DONE_SUCCESS", "DONE_FAILURE"}
Last(seq) == seq[Len(seq)]
\* every attempt made for d raised a transient/protocol-class error
AllTransient(d) ==
    /\ attempts[d] > 0
    /\ Len(errs[d]) = attempts[d]
    /\ \A j \in 1..Len(errs[d]) : errs[d][j].cls \in {"ssh", "other"}

(***************************************************************************)
(* C1.  Liveness of the drain barrier: with a non-empty device list and at  *)
(* least one worker, under fair scheduling every descriptor eventually      *)
(* reaches DONE_SUCCESS or DONE_FAILURE and q.join() eventually returns,    *)
(* whatever errors the session raises.                                      *)
(***************************************************************************)
C1_DrainLiveness ==
    <>(\/ Len(devices) = 0
       \/ settings.maxth = 0
       \/ (Joined /\ \A d \in DevIds : Terminal(d)))

(***************************************************************************)
(* C2.  In every state after q.join() has returned, every descriptor is in  *)
(* exactly one terminal state, DONE_SUCCESS with connection_status true or  *)
(* DONE_FAILURE with connection_status false, and no worker is still        *)
(* connecting, executing or retrying it.                                    *)
(***************************************************************************)
C2_AfterDrainAllTerminal ==
    Joined =>
        \A d \in DevIds :
            /\ Terminal(d)
            /\ lifecycle[d] = "DONE_SUCCESS" <=> devices[d].connection_status
            /\ lifecycle[d] = "DONE_FAILURE" <=> ~devices[d].connection_status
            /\ \A w \in Threads : ~Holds(w, d)

\* the barrier was released with one descriptor in each terminal state, one of
\* them after three attempts
C2_Witness ==
    /\ Joined
    /\ \E d \in DevIds : lifecycle[d] = "DONE_SUCCESS"
    /\ \E d \in DevIds : lifecycle[d] = "DONE_FAILURE" /\ attempts[d] = Tries + 1

(***************************************************************************)
(* C3.  Every error raised while a worker processes a descriptor is         *)
(* absorbed inside connect_dev: no error leaves the inner loop and the      *)
(* worker thread stays alive.                                               *)
(***************************************************************************)
C3_ErrorsAbsorbed == \A w \in Threads : pc[w] # "dead"

(***************************************************************************)
(* C4.  No descriptor is attempted more than 3 times, and a descriptor      *)
(* whose every attempt raises a transient/protocol-class error is attempted *)
(* exactly 3 times and then ends DONE_FAILURE with connection_status false. *)
(***************************************************************************)
C4_TransientThreeAttempts ==
    \A d \in DevIds :
        /\ attempts[d] <= Tries + 1
        /\ (Ended(d) /\ AllTransient(d)) =>
               /\ attempts[d] = Tries + 1
               /\ lifecycle[d] = "DONE_FAILURE"
               /\ ~devices[d].connection_status

(***************************************************************************)
(* C5.  A timeout-class error that reaches connect_dev is never retried: on *)
(* whichever attempt it is raised it is the last error of the descriptor,   *)
(* no further attempt is made, the descriptor is CONNECT_FAILED until       *)
(* task_done() and DONE_FAILURE from then on, with connection_status false  *)
(* and connection_error_msg equal to the timeout's text; a descriptor whose *)
(* first attempt times out is attempted exactly once.                       *)
(***************************************************************************)
C5_TimeoutNeverRetried ==
    \A d \in DevIds :
        \A j \in 1..Len(errs[d]) :
            errs[d][j].cls = "timeout" =>
                /\ j = Len(errs[d])
                /\ attempts[d] = j
                /\ ~devices[d].connection_status
                /\ devices[d].connection_error_msg = errs[d][j].msg
                /\ \/ lifecycle[d] = "DONE_FAILURE" /\ Ended(d)
                   \/ /\ lifecycle[d] = "CONNECT_FAILED"
                      /\ \E w \in Threads : device[w] = d /\ pc[w] = "task_done_255"

\* a timeout raised by a second attempt, and one raised by a first attempt
C5_Witness ==
    /\ \E d \in DevIds :
          /\ Len(errs[d]) = 2
          /\ Last(errs[d]).cls = "timeout"
          /\ lifecycle[d] = "DONE_FAILURE"
    /\ \E d \in DevIds :
          /\ Len(errs[d]) = 1
          /\ errs[d][1].cls = "timeout"
          /\ lifecycle[d] = "DONE_FAILURE"

C7_SaveFailureCaught ==
    \A d \in DevIds :
        (/\ settings.conf
         /\ SaveConfig(devices[d].os_type)
         /\ saveErr[d] # OK) =>
            /\ Last(calls[d]) = "save_config" =>
                  /\ devices[d].connection_status
                  /\ lifecycle[d] \in {"EXECUTING", "DISCONNECTING"}
                  /\ \E j \in 1..Len(devices[d].conf_logs) :
                        Contains(devices[d].conf_logs[j], Str(saveErr[d]))
            /\ (Ended(d) /\ Len(errs[d]) < attempts[d]) =>
                  /\ lifecycle[d] = "DONE_SUCCESS"
                  /\ devices[d].connection_status

(***************************************************************************)
(* C8.  Exactly-once processing: every submitted descriptor is dequeued by  *)
(* exactly one worker exactly once and marked done exactly once, and it is  *)
(* never put back on the queue.  At no time is a descriptor dequeued or     *)
(* marked done twice or queued again, and when the run (started with at     *)
(* least one worker) can take no further step every descriptor has been     *)
(* dequeued once and marked done once.                                      *)
(***************************************************************************)
C8_ExactlyOnce ==
    \A d \in DevIds :
        /\ Len(gets[d]) <= 1
        /\ dones[d] <= 1
        /\ Cardinality({p \in 1..Len(q) : q[p] = d}) <= 1
        /\ gets[d] # << >> => \A p \in 1..Len(q) : q[p] # d
        /\ (settings.maxth >= 1 /\ ~ENABLED Next) =>
               Len(gets[d]) = 1 /\ dones[d] = 1

(***************************************************************************)
(* C9.  Drain-barrier ordering: once q.join() has returned, no worker is    *)
(* inside the lifecycle of any descriptor and no step changes any field of  *)
(* any descriptor, so write_logs never reads a descriptor that a worker     *)
(* may still write.                                                         *)
(***************************************************************************)
C9_NoWriteAfterBarrier ==
    [][Joined => /\ devices' = devices
                 /\ \A w \in Threads : pc[w] \notin InnerLoop]_vars

\* write_logs has run over two descriptors that two workers processed, one
\* of which was retried
C9_Witness ==
    /\ mainpc = "done"
    /\ Len(devices) = 2
    /\ gets[1] # gets[2]
    /\ \E d \in DevIds : attempts[d] > 1

(***************************************************************************)
(* C10.  Aggregation partitions the descriptor list: the count write_logs   *)
(* returns is the number of descriptors with connection_status false,       *)
(* total_devices is the number of descriptors, the log file holds exactly   *)
(* the descriptors with connection_status true and the connection error     *)
(* file exactly the others, each in descriptor-list order, every hostname   *)
(* once in exactly one of the two; in query and in configure mode.          *)
(***************************************************************************)
HostsOf(seq) == [j \in 1..Len(seq) |-> seq[j].hostname]
Connected(dev) == dev.connection_status
NotConnected(dev) == ~dev.connection_status

C10_AggregationPartitions ==
    mainpc = "done" =>
        LET log  == file_content[LogName(settings.conf)]
            conn == file_content["connection_error_msg"]
        IN
        /\ unavailable_devices_count =
              Cardinality({d \in DevIds : ~devices[d].connection_status})
        /\ total_devices = Len(devices)
        /\ HostsOf(log) = HostsOf(SelectSeq(devices, Connected))
        /\ HostsOf(conn) = HostsOf(SelectSeq(devices, NotConnected))
        /\ \A d \in DevIds :
              Cardinality({j \in 1..Len(log) : log[j].hostname = devices[d].hostname})
              + Cardinality({j \in 1..Len(conn) : conn[j].hostname = devices[d].hostname})
              = 1

\* write_logs has run over a list with one success after one failure
C10_Witness ==
    /\ mainpc = "done"
    /\ Len(devices) = 2
    /\ ~devices[1].connection_status
    /\ devices[2].connection_status

(***************************************************************************)
(* C11.  After write_logs has run, the connection error file exists if and  *)
(* only if the returned count of failed descriptors is above 0: with no     *)
(* failed descriptor the file that was opened is removed again, with at     *)
(* least one it is kept and holds a block.  Before write_logs runs there is *)
(* no such file.                                                            *)
(***************************************************************************)
C11_FailureArtifactIffFailed ==
    IF mainpc = "done"
    THEN /\ "connection_error_msg" \in file_exists <=> unavailable_devices_count > 0
         /\ unavailable_devices_count > 0 <=>
                \E d \in DevIds : ~devices[d].connection_status
         /\ "connection_error_msg" \in file_exists =>
                file_content["connection_error_msg"] # << >>
         /\ LogName(settings.conf) \in file_exists
    ELSE file_exists = {}

\* write_logs has run over a list with one failed and one reached descriptor
\* and kept the connection error file
C11_Witness ==
    /\ mainpc = "done"
    /\ Len(devices) = 2
    /\ unavailable_devices_count = 1
    /\ "connection_error_msg" \in file_exists

(***************************************************************************)
(* C12.  As claimed: a retry is scheduled only for a failed connection.  A  *)
(* descriptor is RETRYING (about to re-enter CONNECTING) only when the      *)
(* attempt that failed made no session call other than ConnectHandler, so   *)
(* the command list or the configuration lines are sent in at most one      *)
(* attempt of a lifecycle.                                                  *)
(***************************************************************************)
C12_RetryOnlyFromConnect ==
    \A d \in DevIds : lifecycle[d] = "RETRYING" => calls[d] = <<"connect">>

\* the lifecycle transitions of connect_dev: the try block (main.py:244-249)
\* runs from CONNECTING through EXECUTING and DISCONNECTING to DONE_SUCCESS,
\* and from each of the three an error leads to the except clauses
\* (main.py:251-281), which either retry or give up
LifecycleEdges ==
    { <<"START", "CONNECTING">>,
      <<"CONNECTING", "EXECUTING">>,
      <<"EXECUTING", "DISCONNECTING">>,
      <<"DISCONNECTING", "DONE_SUCCESS">>,
      <<"CONNECTING", "RETRYING">>, <<"CONNECTING", "CONNECT_FAILED">>,
      <<"EXECUTING", "RETRYING">>, <<"EXECUTING", "CONNECT_FAILED">>,
      <<"DISCONNECTING", "RETRYING">>, <<"DISCONNECTING", "CONNECT_FAILED">>,
      <<"RETRYING", "CONNECTING">>,
      <<"CONNECT_FAILED", "DONE_FAILURE">> }

(***************************************************************************)
(* C12, amended.  The lifecycle follows only the transitions of             *)
(* LifecycleEdges: an error raised after the session was opened (while      *)
(* commands or configuration lines are sent, in commit, or in disconnect)   *)
(* is handled like a connection error, so a descriptor that reached         *)
(* EXECUTING or DISCONNECTING may return to CONNECTING through RETRYING.    *)
(* The command list or the configuration lines are sent at most once per    *)
(* attempt, every retried attempt starts from empty transcripts, and there  *)
(* are at most 3 attempts (so at most 3 sendings) in one lifecycle.         *)
(***************************************************************************)
C12_LifecycleTransitions ==
    /\ [](\A d \in DevIds :
            /\ attempts[d] <= Tries + 1
            /\ Cardinality({j \in 1..Len(calls[d]) :
                               calls[d][j] = "send_config_set"}) <= 1
            /\ ~settings.conf =>
                   Cardinality({j \in 1..Len(calls[d]) :
                                  calls[d][j] = "send_command"}) <= Len(CmdYaml)
            /\ lifecycle[d] = "RETRYING" =>
                   /\ devices[d].cmd_logs = << >>
                   /\ devices[d].conf_logs = << >>)
    /\ [][\A d \in DevIds :
            lifecycle'[d] # lifecycle[d] =>
                <<lifecycle[d], lifecycle'[d]>> \in LifecycleEdges]_vars

\* a retry is scheduled for an attempt that had sent commands or
\* configuration lines
C12_Witness ==
    \E d \in DevIds :
        /\ lifecycle[d] = "RETRYING"
        /\ \E j \in 1..Len(calls[d]) :
              calls[d][j] \in {"send_command", "send_config_set"}

(***************************************************************************)
(* C13.  When the third attempt of a descriptor also fails with a           *)
(* transient/protocol-class error (SSHException or any other exception),    *)
(* the descriptor has connection_status false and connection_error_msg      *)
(* equal to the text of that third error, and it is DONE_FAILURE as soon as *)
(* the worker has called task_done().                                       *)
(***************************************************************************)
C13_ExhaustedRetriesReportLastError ==
    \A d \in DevIds :
        (/\ attempts[d] = Tries + 1
         /\ Len(errs[d]) = Tries + 1
         /\ Last(errs[d]).cls \in {"ssh", "other"}) =>
            /\ ~devices[d].connection_status
            /\ devices[d].connection_error_msg = Last(errs[d]).msg
            /\ \/ lifecycle[d] = "DONE_FAILURE" /\ Ended(d)
               \/ /\ lifecycle[d] = "CONNECT_FAILED"
                  /\ \E w \in Threads : device[w] = d /\ pc[w] = "task_done_275"

(***************************************************************************)
(* C14.  In every reachable state, for every descriptor,                    *)
(* connection_error_msg is non-empty if and only if connection_status is    *)
(* false; a descriptor that succeeds after failed attempts ends with        *)
(* connection_status true and an empty connection_error_msg.                *)
(***************************************************************************)
C14_ErrorMessageIffNotConnected ==
    \A d \in DevIds :
        /\ devices[d].connection_error_msg # << >> <=> ~devices[d].connection_status
        /\ lifecycle[d] = "DONE_SUCCESS" =>
               /\ devices[d].connection_status
               /\ devices[d].connection_error_msg = << >>

(***************************************************************************)
(* C15.  In query mode a descriptor that ends DONE_SUCCESS has cmd_logs     *)
(* equal to the output of each command of cmd.yaml, one per command, in the *)
(* order of cmd.yaml, however many failed attempts came before the          *)
(* successful one.                                                          *)
(***************************************************************************)
C15_QueryTranscriptExact ==
    \A d \in DevIds :
        (~settings.conf /\ lifecycle[d] = "DONE_SUCCESS") =>
            devices[d].cmd_logs =
                [j \in 1..Len(CmdYaml) |-> send_command(CmdYaml[j])]

\* a query-mode descriptor that succeeded in its third attempt
C15_Witness ==
    \E d \in DevIds :
        /\ ~settings.conf
        /\ lifecycle[d] = "DONE_SUCCESS"
        /\ attempts[d] = Tries + 1
        /\ Len(errs[d]) = Tries

(***************************************************************************)
(* C16.  Single writer: at every moment each descriptor is being processed  *)
(* by at most one worker, a descriptor a worker is processing is not on the *)
(* queue, and every step that changes a field of a descriptor is taken      *)
(* while exactly one worker is processing it; for 0, 1 and 2 workers and    *)
(* every interleaving.                                                      *)
(***************************************************************************)
C16_SingleWriter ==
    /\ [](\A d \in DevIds :
            /\ Cardinality({w \in Threads : Holds(w, d)}) <= 1
            /\ (\E w \in Threads : Holds(w, d)) =>
                   \A p \in 1..Len(q) : q[p] # d)
    /\ [][\A d \in DevIds :
            devices'[d] # devices[d] =>
                Cardinality({w \in Threads : Holds(w, d)}) = 1]_vars

\* two workers are sending commands at the same time, each to its own device
C16_Witness ==
    /\ \A w \in Threads : pc[w] \in {"show_commands", "send_config_set", "commit"}
    /\ \A w \in Threads : devices[device[w]].ssh_conn = "session"
    /\ \A v, w \in Threads : v # w => device[v] # device[w]

(***************************************************************************)
(* C17.  For XR and JunOS-MX in configure mode the session calls of every   *)
(* attempt are made in the order ConnectHandler, send_config_set,           *)
(* verification read, commit, exit_config_mode, disconnect (an attempt that *)
(* fails makes a prefix of them); exit_config_mode is called only after     *)
(* commit returned and never in an attempt whose commit raised; and a       *)
(* descriptor that ends DONE_SUCCESS made all of them and has conf_logs     *)
(* equal to the output of the verification read followed by the output of   *)
(* commit.                                                                  *)
(***************************************************************************)
XRMXCalls == <<"connect", "send_config_set", "verification_read", "commit",
               "exit_config_mode", "disconnect">>

C17_CandidateCommitOrder ==
    \A d \in DevIds :
        (settings.conf /\ devices[d].os_type \in {"cisco_xr", "juniper"}) =>
            /\ Len(calls[d]) <= Len(XRMXCalls)
            /\ calls[d] = SubSeq(XRMXCalls, 1, Len(calls[d]))
            /\ saveErr[d] # OK => Len(calls[d]) = 4
            /\ lifecycle[d] = "DONE_SUCCESS" =>
                   /\ calls[d] = XRMXCalls
                   /\ devices[d].conf_logs =
                         << send_command(IF devices[d].os_type = "cisco_xr"
                                         THEN <<"show configuration">>
                                         ELSE <<"show | compare">>),
                            commit >>

\* an XR or MX descriptor whose commit raised in the first attempt and that
\* ended DONE_SUCCESS in the second
C17_Witness ==
    \E d \in DevIds :
        /\ settings.conf
        /\ devices[d].os_type \in {"cisco_xr", "juniper"}
        /\ commitRaised[d]
        /\ attempts[d] = 2
        /\ lifecycle[d] = "DONE_SUCCESS"

(***************************************************************************)
(* C18.  Aggregation is idempotent and read-only: write_logs changes no     *)
(* field of any descriptor, and once it has run, running it again over the  *)
(* same descriptor list and the same log folder leaves the same log file,   *)
(* the same connection error file (present or absent, with the same         *)
(* blocks) and returns the same count.                                      *)
(***************************************************************************)
C18_AggregationIdempotent ==
    /\ [](mainpc = "done" =>
            LET again == write_logs(devices, settings.conf,
                                    [exists |-> file_exists,
                                     content |-> file_content])
            IN  /\ again.content = file_content
                /\ again.exists = file_exists
                /\ again.count = unavailable_devices_count)
    /\ [][mainpc = "write_logs" => devices' = devices]_vars

\* write_logs has run in configure mode and left blocks in both files
C18_Witness ==
    /\ mainpc = "done"
    /\ settings.conf
    /\ file_content["conf_logs"] # << >>
    /\ file_content["connection_error_msg"] # << >>
    /\ file_exists = {"conf_logs", "connection_error_msg"}

(***************************************************************************)
(* C19.  For every argument list the maxth that get_arguments returns lies  *)
(* in 1..100, so that once the main thread has left the loop that starts    *)
(* the threads at least one and at most 100 workers are started.            *)
(***************************************************************************)
C19_MaxthInRange ==
    /\ settings.maxth \in 1..MaxthLimit
    /\ mainpc # "start_threads" => started \in 1..MaxthLimit

(***************************************************************************)
(* C20.  As claimed: worker termination.  Under fair scheduling, once every *)
(* descriptor is processed and the barrier is released, every started       *)
(* worker eventually leaves the loop of connect_dev: it is neither waiting  *)
(* in dev_queue.get() nor processing a descriptor.                          *)
(***************************************************************************)
C20_WorkersEventuallyExit ==
    (Joined /\ Len(devices) > 0 /\ \A d \in DevIds : Terminal(d))
        ~> (\A w \in Workers : pc[w] \notin ({"get"} \cup InnerLoop))

(***************************************************************************)
(* C20, amended.  A worker never leaves the loop of connect_dev on its own: *)
(* the outer "while True" has no exit and the queue is never closed.  Each  *)
(* worker repeatedly dequeues one descriptor and processes it, and waits in *)
(* dev_queue.get() while the queue is empty.  Once the barrier is released  *)
(* the queue is empty and every started worker is waiting in get(), where   *)
(* it stays (as a daemon thread it ends with the process); the only way a   *)
(* thread ends before is the error of main.py:261, after which the barrier  *)
(* is not released.                                                         *)
(***************************************************************************)
C20_WorkersWaitInGet ==
    /\ \A w \in Threads :
          pc[w] \in {"unstarted", "get", "dead"} \cup InnerLoop
    /\ \A w \in Threads : pc[w] # "unstarted" <=> w \in 1..started
    /\ started <= settings.maxth
    /\ Joined =>
          /\ q = << >>
          /\ started = settings.maxth
          /\ \A w \in Workers : pc[w] = "get"

\* the run is over: two workers, each of which processed a descriptor, wait
\* in get() on the empty queue
C20_Witness ==
    /\ mainpc = "done"
    /\ started = 2
    /\ \A w \in Threads : pc[w] = "get"
    /\ Len(devices) = 2
    /\ gets[1] # gets[2]
    /\ \A d \in DevIds : dones[d] = 1

====
